---- MODULE Spec2Model ----
(***************************************************************************)
(* django-partial-state: the derivation of a partial state ("staging")     *)
(* model from a target model (partial_state/models.py, PartialStateRecord),*)
(* the manager over the staging table (partial_state/manager.py) and the   *)
(* promotion of a staging row into the permanent table                     *)
(* (PartialStateMixin.wrap / shelve / post_shelve_cleanup).                *)
(*                                                                         *)
(* Values are integers: Null (Python's None) is 0, field values are        *)
(* 1..MaxVal, times are 0..MaxTime.  A row is a function from column names *)
(* to values.  A table is a function from the primary keys present to rows.*)
(***************************************************************************)
EXTENDS Integers, Sequences, FiniteSets, TLC

\* ------------------------------------------------------------------ bounds
MaxVal == 2
MaxCol == 1
MaxTime == 2
MaxId == 2
MaxPerm == 2
NHandles == 2

Null == 0
NoLifetime == -1
Values == 1..MaxVal
ColValues == 1..MaxCol
Times == 0..MaxTime
Handles == 1..NHandles

VARIABLES
    schema,     \* the target model: its local fields, its parents, the record's state_lifetime
    partial,    \* what finalize left on the target class: the derived staging model, or the error
    now,        \* the database clock (Now(), timezone.now())
    staging,    \* the staging table: partial_state_id -> row
    nextId,     \* the staging table's AutoField sequence (last value handed out)
    permanent,  \* the target's table: primary key -> row
    permSeq,    \* the target table's AutoField sequence (last value handed out)
    handles,    \* the in-memory staging model instances, and each one's position inside shelve
    ret         \* what the last call that finished returned or raised

vars == <<schema, partial, now, staging, nextId, permanent, permSeq, handles, ret>>

\* ------------------------------------------------------------ target models
\* A field of a model, as Django's Field holds it: `unique` is the constructor's
\* unique= argument (Field._unique), `null` its null= argument.
Fld(name, kind, pk, uniq, null) ==
    [name |-> name, kind |-> kind, primary_key |-> pk, unique |-> uniq, null |-> null]

\* tests/models.py: the implicit `id = AutoField(primary_key=True)` of TestA/TestB/User.
IdField == Fld("id", "AutoField", TRUE, FALSE, FALSE)
\* A primary key that is not an AutoField (the case by_true_pk is written for).
CodeField == Fld("code", "Field", TRUE, FALSE, FALSE)
\* tests/models.py, Profile(User): the parent link user_ptr = OneToOneField(User, primary_key=True,
\* parent_link=True); OneToOneField.__init__ sets unique=True.
UserPtrField == Fld("user_ptr", "OneToOneField", TRUE, TRUE, FALSE)
\* tests/models.py: column1 = models.IntegerField() (NOT NULL on the target).
Column1 == Fld("column1", "Field", FALSE, FALSE, FALSE)

PkFields == {IdField, CodeField, UserPtrField}

\* The second local field of the schemas the derivation is checked on.
ExtraFields ==
    { Fld("column1", "Field", FALSE, FALSE, FALSE),
      Fld("slug", "Field", FALSE, TRUE, FALSE),
      Fld("ref", "ForeignKey", FALSE, FALSE, FALSE),
      Fld("uref", "ForeignKey", FALSE, TRUE, FALSE),
      Fld("one", "OneToOneField", FALSE, TRUE, FALSE),
      Fld("tags", "ManyToManyField", FALSE, FALSE, FALSE) }

Model(fields, nparents, lifetime) ==
    [fields |-> fields, parents |-> nparents, state_lifetime |-> lifetime]

\* Number of multi-table-inheritance parents of a model with primary key field `pk`.
ParentsOf(pk) == IF pk.name = "user_ptr" THEN 1 ELSE 0

\* Options.local_concrete_fields: the fields of Options.local_fields that have a column.
\* Options.add_field files a ManyToManyField under local_many_to_many, never under local_fields.
local_concrete_fields(model) ==
    SelectSeq(model.fields, LAMBDA f : f.kind # "ManyToManyField")

\* Options.get_fields(include_parents=False): the model's own forward fields, many-to-many included.
get_fields(model) == model.fields

\* Field.unique: the read-only property `self._unique or self.primary_key`.
IsUnique(field) == field.unique \/ field.primary_key

\* ------------------------------------------------------- schema derivation
\* models.py 223-265: a ForeignKey (OneToOneField included) is rebuilt from field.deconstruct().
\* deconstruct() gives back the constructor's arguments: unique=True of a ForeignKey is among
\* them, while OneToOneField.deconstruct drops its implied unique; primary_key was already
\* cleared on the copy.  A OneToOneField is rebuilt as a plain ForeignKey.
RebuildForeignKey(field) ==
    [ name |-> field.name,
      kind |-> IF field.kind = "OneToOneField" THEN "ForeignKey" ELSE field.kind,
      primary_key |-> field.primary_key,
      unique |-> IF field.kind = "OneToOneField" THEN FALSE ELSE field.unique,
      null |-> field.null ]

\* models.py 213-271, one field past the two isinstance checks: the copy is demoted or made
\* nullable, then rebuilt (ForeignKey) or, when still unique, `field.unique = False` is
\* executed.  Field.unique is a property without a setter, so that assignment raises
\* AttributeError.  Result: the error raised, or the field yielded.
CopyOne(field) ==
    LET copied == IF field.primary_key
                  THEN [field EXCEPT !.primary_key = FALSE]
                  ELSE [field EXCEPT !.null = TRUE]
    IN  IF copied.kind \in {"ForeignKey", "OneToOneField"}
        THEN [err |-> "", out |-> <<RebuildForeignKey(copied)>>]
        ELSE IF IsUnique(copied)
        THEN [err |-> "AttributeError", out |-> <<>>]
        ELSE [err |-> "", out |-> <<copied>>]

\* models.py 196-271: the generator, run to its end over `fields` (what the dict
\* comprehension of create_state_model does).  The first error ends it.
RECURSIVE CopyFrom(_)
CopyFrom(fields) ==
    IF fields = <<>> THEN [err |-> "", out |-> <<>>]
    ELSE LET field == Head(fields) IN
         IF field.kind = "ManyToManyField" THEN [err |-> "ValueError", out |-> <<>>]
         ELSE IF field.kind = "AutoField" THEN CopyFrom(Tail(fields))
         ELSE LET one == CopyOne(field) IN
              IF one.err # "" THEN one
              ELSE LET rest == CopyFrom(Tail(fields)) IN
                   IF rest.err # "" THEN rest
                   ELSE [err |-> "", out |-> one.out \o rest.out]

copy_fields(model) == CopyFrom(local_concrete_fields(model))

\* models.py 108-115: the object ExpiryDefault(lifetime) holds one attribute, `lifetime`.
ExpiryDefault(lifetime) == [lifetime |-> lifetime]

\* models.py 114-115, ExpiryDefault.__call__: timezone.now() + self.state_lifetime.  The
\* attribute read is `state_lifetime`; reading an attribute the object lacks raises.
ExpiryDefaultCall(self, t) ==
    IF "state_lifetime" \in DOMAIN self
    THEN [err |-> "", val |-> t + self["state_lifetime"]]
    ELSE [err |-> "AttributeError", val |-> Null]

\* models.py 293-303: partial_state_id always; partial_state_expiry, with its default, iff
\* a lifetime was given.  Result: the names of the extra columns.
state_model_extra_fields(model) ==
    {"partial_state_id"} \cup
    (IF model.state_lifetime # NoLifetime THEN {"partial_state_expiry"} ELSE {})

\* models.py 326-332: ordering = ('-partial_state_id',), get_latest_by = 'partial_state_id'.
state_model_meta_options(model) ==
    [ordering |-> "-partial_state_id", get_latest_by |-> "partial_state_id"]

\* What is on the target class before class_prepared fires: no descriptor.
Unprepared ==
    [ status |-> "pending", err |-> "", fields |-> <<>>, extra |-> {},
      state_expires |-> FALSE, meta |-> [ordering |-> "", get_latest_by |-> ""] ]

\* models.py 178-194: the staging model built from the copied fields, the extra fields and
\* the meta options; an error of copy_fields leaves the function before anything is built.
create_state_model(model) ==
    LET copied == copy_fields(model) IN
    IF copied.err # ""
    THEN [Unprepared EXCEPT !.status = "failed", !.err = copied.err]
    ELSE [ status |-> "attached", err |-> "", fields |-> copied.out,
           extra |-> state_model_extra_fields(model),
           state_expires |-> model.state_lifetime # NoLifetime,
           meta |-> state_model_meta_options(model) ]

\* Column names of the staging table that come from the target.
StagingNames(sm) == {sm.fields[i].name : i \in DOMAIN sm.fields}

\* The target's fields as a set, and its primary key field (Options.pk).
FieldSet(model) == {model.fields[i] : i \in DOMAIN model.fields}
PkField(model) == CHOOSE f \in FieldSet(model) : f.primary_key

NoRet ==
    [ op |-> "", h |-> 0, arg |-> 0, out |-> "", ids |-> <<>>, at |-> 0,
      created |-> 0, deleted |-> 0 ]

Ret(op, h, arg, out, ids) ==
    [ op |-> op, h |-> h, arg |-> arg, out |-> out, ids |-> ids, at |-> now,
      created |-> 0, deleted |-> 0 ]

\* models.py 162-176: class_prepared fires once per target class; the descriptor is set on
\* the class only when create_state_model returned.
finalize ==
    /\ partial.status = "pending"
    /\ partial' = create_state_model(schema)
    /\ ret' = Ret("finalize", 0, 0, partial'.err, <<>>)
    /\ UNCHANGED <<schema, now, staging, nextId, permanent, permSeq, handles>>

\* --------------------------------------------------------------- rows
EmptyRow == [x \in {} |-> Null]
Merge(f, g) == [x \in (DOMAIN f) \cup (DOMAIN g) |-> IF x \in DOMAIN g THEN g[x] ELSE f[x]]
Remove(f, S) == [x \in (DOMAIN f) \ S |-> f[x]]
MaxOf(S) == CHOOSE x \in S : \A y \in S : y <= x

\* The ids of S in descending order (Meta.ordering = ('-partial_state_id',)).
RECURSIVE Descending(_)
Descending(S) == IF S = {} THEN <<>> ELSE <<MaxOf(S)>> \o Descending(S \ {MaxOf(S)})

\* An instance that is bound to no variable of the caller yet is not in DOMAIN handles.
Handle(pk, vals) ==
    [pk |-> pk, vals |-> vals, pc |-> "idle", ins |-> EmptyRow]

Idle(h) == h \in DOMAIN handles /\ handles[h].pc = "idle"
Free(h) == IF h \in DOMAIN handles THEN handles[h].pc = "idle" ELSE TRUE
Bind(h, obj) == [x \in (DOMAIN handles) \cup {h} |-> IF x = h THEN obj ELSE handles[x]]

\* ------------------------------------------------------ the staging store
\* Mutant of get_queryset: the expiry filter is left out.
get_queryset_Unfiltered(sm, table, t) == DOMAIN table

\* manager.py 34-42: every row when the model has no expiry, else the rows with
\* partial_state_expiry >= Now().  Result: the partial_state_ids selected.
get_queryset(sm, table, t) ==
    IF ~sm.state_expires THEN DOMAIN table
    ELSE {id \in DOMAIN table : table[id]["partial_state_expiry"] >= t}

\* Mutant of ExpiredRows: __lte instead of __lt, which also takes the rows expiring now.
ExpiredRows_Lte(table, t) ==
    {id \in DOMAIN table : table[id]["partial_state_expiry"] <= t}

\* manager.py 47: super().get_queryset().filter(partial_state_expiry__lt=Now()).
ExpiredRows(table, t) ==
    {id \in DOMAIN table : table[id]["partial_state_expiry"] < t}

\* manager.py 50-57: get_queryset().get(partial_state_id=state_id).
by_partial_state_id(sm, table, t, state_id) ==
    LET found == {id \in get_queryset(sm, table, t) : id = state_id} IN
    IF found = {} THEN [err |-> "DoesNotExist", ids |-> <<>>]
    ELSE [err |-> "", ids |-> <<state_id>>]

\* Mutant of by_true_pk: earliest() instead of latest().
by_true_pk_Earliest(sm, model, table, t, pk) ==
    LET attname == PkField(model).name IN
    IF attname \notin StagingNames(sm) THEN [err |-> "FieldError", ids |-> <<>>]
    ELSE LET found == {id \in get_queryset(sm, table, t) : table[id][attname] = pk} IN
         IF found = {} THEN [err |-> "DoesNotExist", ids |-> <<>>]
         ELSE [err |-> "", ids |-> <<CHOOSE x \in found : \A y \in found : x <= y>>]

\* Mutant of by_true_pk: an unknown attname falls back to the staging model's own key.
by_true_pk_OwnKey(sm, model, table, t, pk) ==
    LET attname == PkField(model).name
        found == IF attname \notin StagingNames(sm)
                 THEN {id \in get_queryset(sm, table, t) : id = pk}
                 ELSE {id \in get_queryset(sm, table, t) : table[id][attname] = pk}
    IN  IF found = {} THEN [err |-> "DoesNotExist", ids |-> <<>>]
        ELSE [err |-> "", ids |-> <<MaxOf(found)>>]

\* manager.py 59-69: filter on the target primary key's attname, then latest(), which
\* takes Meta.get_latest_by = partial_state_id.  The staging model has no field of an
\* AutoField primary key's name, and filter() on an unknown name raises FieldError.
by_true_pk(sm, model, table, t, pk) ==
    LET attname == PkField(model).name IN
    IF attname \notin StagingNames(sm) THEN [err |-> "FieldError", ids |-> <<>>]
    ELSE LET found == {id \in get_queryset(sm, table, t) : table[id][attname] = pk} IN
         IF found = {} THEN [err |-> "DoesNotExist", ids |-> <<>>]
         ELSE [err |-> "", ids |-> <<MaxOf(found)>>]

\* A row violates a constraint of the staging table: NOT NULL of a field copied with
\* null=False, or the unique index of a field the staging model kept unique.
StagingIntegrityError(sm, table, id, row) ==
    \E i \in DOMAIN sm.fields :
        LET f == sm.fields[i] IN
        \/ ~f.null /\ row[f.name] = Null
        \/ /\ IsUnique(f)
           /\ row[f.name] # Null
           /\ \E other \in (DOMAIN table) \ {id} : table[other][f.name] = row[f.name]

\* Model.__init__ of the staging model (manager.py 22, tests: TestA(...).partial): the
\* values given, None for the fields left out, and for partial_state_expiry the value
\* given or else the field's default, ExpiryDefault(state_lifetime)().
New(h, v, supplied, e) ==
    /\ partial.status = "attached"
    /\ Free(h)
    /\ LET dflt == ExpiryDefaultCall(ExpiryDefault(schema.state_lifetime), now) IN
       IF partial.state_expires /\ ~supplied /\ dflt.err # ""
       THEN /\ ret' = Ret("new", h, 0, dflt.err, <<>>)
            /\ UNCHANGED handles
       ELSE /\ handles' = Bind(h, Handle(Null,
                IF partial.state_expires
                THEN Merge(v, [x \in {"partial_state_expiry"} |->
                                  IF supplied THEN e ELSE dflt.val])
                ELSE v))
            /\ ret' = Ret("new", h, IF supplied THEN 1 ELSE 0, "ok", <<>>)
    /\ UNCHANGED <<schema, partial, now, staging, nextId, permanent, permSeq>>

\* Attribute assignment on an instance (tests: partial_obj.column1 = 5).
Assign(h, name, value) ==
    /\ Idle(h)
    /\ name \in StagingNames(partial)
    /\ handles[h].vals[name] # value
    /\ handles' = [handles EXCEPT ![h].vals[name] = value]
    /\ ret' = Ret("assign", 0, 0, "ok", <<>>)
    /\ UNCHANGED <<schema, partial, now, staging, nextId, permanent, permSeq>>

\* Model.save() of a staging instance: INSERT with the next partial_state_id when the
\* instance has none; else UPDATE of its row, and INSERT under its id if no row was updated.
Save(h) ==
    /\ Idle(h)
    /\ LET obj == handles[h]
           id == IF obj.pk = Null THEN nextId + 1 ELSE obj.pk
       IN  /\ obj.pk = Null => nextId < MaxId
           /\ IF StagingIntegrityError(partial, staging, id, obj.vals)
              THEN /\ ret' = Ret("save", 0, 0, "IntegrityError", <<>>)
                   /\ UNCHANGED <<staging, nextId, handles>>
              ELSE /\ staging' = Merge(staging, [x \in {id} |-> obj.vals])
                   /\ nextId' = IF obj.pk = Null THEN id ELSE nextId
                   /\ handles' = [handles EXCEPT ![h].pk = id]
                   /\ ret' = Ret("save", 0, 0, "ok", <<>>)
    /\ UNCHANGED <<schema, partial, now, permanent, permSeq>>

\* An instance read back: manager.by_partial_state_id(state_id).
Fetch(h, state_id) ==
    /\ partial.status = "attached"
    /\ Free(h)
    /\ LET r == by_partial_state_id(partial, staging, now, state_id) IN
       /\ ret' = Ret("by_partial_state_id", h, state_id, IF r.err = "" THEN "ok" ELSE r.err, r.ids)
       /\ handles' = IF r.err = "" THEN Bind(h, Handle(state_id, staging[state_id])) ELSE handles
    /\ UNCHANGED <<schema, partial, now, staging, nextId, permanent, permSeq>>

\* An instance read back: manager.by_true_pk(pk).
FetchTrue(h, pk) ==
    /\ partial.status = "attached"
    /\ Free(h)
    /\ LET r == by_true_pk(partial, schema, staging, now, pk) IN
       /\ ret' = Ret("by_true_pk", h, pk, IF r.err = "" THEN "ok" ELSE r.err, r.ids)
       /\ handles' = IF r.err = "" THEN Bind(h, Handle(r.ids[1], staging[r.ids[1]])) ELSE handles
    /\ UNCHANGED <<schema, partial, now, staging, nextId, permanent, permSeq>>

\* The manager's queryset, evaluated: the active rows in Meta.ordering.
Query ==
    /\ partial.status = "attached"
    /\ ret' = Ret("query", 0, 0, "ok", Descending(get_queryset(partial, staging, now)))
    /\ UNCHANGED <<schema, partial, now, staging, nextId, permanent, permSeq, handles>>

\* manager.py 44-48: TypeError without expiry, else one DELETE of the expired rows.
purge_expired ==
    /\ partial.status = "attached"
    /\ IF ~partial.state_expires
       THEN /\ ret' = Ret("purge_expired", 0, 0, "TypeError", <<>>)
            /\ UNCHANGED staging
       ELSE LET gone == ExpiredRows(staging, now) IN
            /\ staging' = Remove(staging, gone)
            /\ ret' = [Ret("purge_expired", 0, 0, "ok", Descending(gone))
                          EXCEPT !.deleted = Cardinality(gone)]
    /\ UNCHANGED <<schema, partial, now, nextId, permanent, permSeq, handles>>

\* Model.delete() of a staging instance: raises when the instance has no primary key, else
\* DELETE ... WHERE partial_state_id = pk (no error when no row matches) and the
\* instance's primary key is set to None.
Delete(h) ==
    /\ Idle(h)
    /\ IF handles[h].pk = Null
       THEN /\ ret' = Ret("delete", 0, 0, "ValueError", <<>>)
            /\ UNCHANGED <<staging, handles>>
       ELSE /\ staging' = Remove(staging, {handles[h].pk})
            /\ handles' = [handles EXCEPT ![h].pk = Null]
            /\ ret' = Ret("delete", 0, 0, "ok", <<>>)
    /\ UNCHANGED <<schema, partial, now, nextId, permanent, permSeq>>

\* The database clock advances.
Tick ==
    /\ now < MaxTime
    /\ now' = now + 1
    /\ ret' = Ret("tick", 0, 0, "ok", <<>>)
    /\ UNCHANGED <<schema, partial, staging, nextId, permanent, permSeq, handles>>

\* ------------------------------------------------------------- promotion
\* models.py 35-74 with populate_relations=False: for every field of
\* get_fields(include_parents=False) that is no AutoField, getattr(self, f.attname); the
\* target instance is built from these values.  A name the staging instance lacks raises.
wrap(self, model) ==
    LET fs == {f \in {get_fields(model)[i] : i \in DOMAIN get_fields(model)} :
                  f.kind # "AutoField"} IN
    IF \E f \in fs : f.name \notin DOMAIN self.vals
    THEN [err |-> "AttributeError", obj |-> EmptyRow]
    ELSE [err |-> "", obj |-> [n \in {f.name : f \in fs} |-> self.vals[n]]]

\* Mutant of TargetIntegrityError: the insert is not forced, so a taken primary key or
\* unique value is no error and the existing row is written over.
TargetIntegrityError_NotForced(model, table, obj) ==
    \E f \in FieldSet(model) :
        f.name \in DOMAIN obj /\ ~f.null /\ obj[f.name] = Null

\* INSERT of `obj` into the target table fails: NOT NULL of a field with null=False, or
\* the primary key or a unique value is taken by a committed row.
TargetIntegrityError(model, table, obj) ==
    \E f \in FieldSet(model) :
        /\ f.name \in DOMAIN obj
        /\ \/ ~f.null /\ obj[f.name] = Null
           \/ /\ IsUnique(f)
              /\ \E k \in DOMAIN table : table[k][f.name] = obj[f.name]

\* The INSERT waits: an uncommitted insert of another transaction holds the same primary
\* key or unique value.
TargetBlocked(model, h, obj) ==
    \E g \in (DOMAIN handles) \ {h} : \E k \in DOMAIN handles[g].ins :
        \E f \in FieldSet(model) :
            /\ f.name \in DOMAIN obj
            /\ IsUnique(f)
            /\ handles[g].ins[k][f.name] = obj[f.name]

\* The primary key the INSERT gives the row: the next value of the AutoField sequence,
\* or the value the instance carries.
InsertPk(model, seq, obj) ==
    IF PkField(model).kind = "AutoField" THEN seq + 1 ELSE obj[PkField(model).name]

\* models.py 96-102: save_base(force_insert=True, raw=True) when the target has parents
\* (raw: the parents' rows are not written), save(force_insert=True) otherwise.  Both
\* INSERT one row into the target's own table.  Result: the rows this transaction holds.
ForceInsert(model, seq, obj) ==
    IF model.parents > 0
    THEN [k \in {InsertPk(model, seq, obj)} |-> obj]
    ELSE [k \in {InsertPk(model, seq, obj)} |-> obj]

\* Model.delete() (models.py 33): raises when the instance has no primary key, else DELETE
\* ... WHERE partial_state_id = pk, which is no error when no row matches, and the
\* instance's primary key becomes None.
DeleteInstance(self, table) ==
    IF self.pk = Null
    THEN [err |-> "ValueError", table |-> table, pk |-> self.pk]
    ELSE [err |-> "", table |-> Remove(table, {self.pk}), pk |-> Null]

\* Mutant of post_shelve_cleanup: the cleanup forgets to delete the staging row.
post_shelve_cleanup_Keeps(self, table, raises) ==
    [err |-> IF raises THEN "CleanupError" ELSE "", table |-> table, pk |-> self.pk]

\* models.py 24-33: by default self.delete().  The mixin may be extended (mixin_base):
\* `raises` stands for an override that runs the default and then raises.
post_shelve_cleanup(self, table, raises) ==
    LET d == DeleteInstance(self, table) IN
    IF d.err = "" /\ raises THEN [d EXCEPT !.err = "CleanupError"] ELSE d

\* Mutant of AtomicExit: no transaction around the insert and the cleanup, so what was
\* written before the exception stays.
AtomicExit_NoRollback(before, after, failed) == after

\* models.py 93, leaving `with transaction.atomic()`: the block's writes are kept when it
\* ends normally and undone when an exception leaves it.
AtomicExit(before, after, failed) == IF failed THEN before ELSE after

\* models.py 86-102, shelve up to its INSERT: wrap, the target's clean() (whose verdict is
\* the target's own: `valid`), BEGIN, and the forced INSERT.  An error ends the call; the
\* INSERT waits while another transaction's uncommitted insert holds the same key.
ShelveInsert(h, valid) ==
    /\ Idle(h)
    /\ LET self == handles[h]
           w == wrap(self, schema)
           fail(e) == /\ ret' = Ret("shelve", h, self.pk, e, <<>>)
                      /\ permanent' = AtomicExit(permanent, permanent, TRUE)
                      /\ UNCHANGED <<handles, permSeq>>
       IN  IF w.err # "" THEN fail(w.err)
           ELSE IF ~valid THEN fail("ValidationError")
           ELSE IF TargetIntegrityError(schema, permanent, w.obj) THEN fail("IntegrityError")
           ELSE /\ ~TargetBlocked(schema, h, w.obj)
                /\ PkField(schema).kind = "AutoField" => permSeq < MaxPerm
                /\ handles' = [handles EXCEPT ![h].pc = "cleanup",
                                              ![h].ins = ForceInsert(schema, permSeq, w.obj)]
                /\ permSeq' = IF PkField(schema).kind = "AutoField" THEN permSeq + 1 ELSE permSeq
                /\ ret' = Ret("insert", h, self.pk, "ok", <<>>)
                /\ UNCHANGED permanent
    /\ UNCHANGED <<schema, partial, now, staging, nextId>>

\* models.py 103-105, the rest of shelve: post_shelve_cleanup inside the transaction, then
\* the end of the atomic block (COMMIT, or ROLLBACK when the cleanup raised) and the return
\* of the wrapped object.
ShelveCleanup(h, raises) ==
    /\ h \in DOMAIN handles
    /\ handles[h].pc = "cleanup"
    /\ LET self == handles[h]
           c == post_shelve_cleanup(self, staging, raises)
           failed == c.err # ""
       IN  /\ permanent' = AtomicExit(permanent, Merge(permanent, self.ins), failed)
           /\ staging' = AtomicExit(staging, c.table, failed)
           /\ handles' = [handles EXCEPT ![h].pc = "idle", ![h].ins = EmptyRow,
                                         ![h].pk = c.pk]
           /\ ret' = [Ret("shelve", h, self.pk, IF failed THEN c.err ELSE "ok",
                          IF failed THEN <<>> ELSE Descending(DOMAIN self.ins))
                         EXCEPT !.created = Cardinality(DOMAIN permanent') - Cardinality(DOMAIN permanent),
                                !.deleted = Cardinality(DOMAIN staging) - Cardinality(DOMAIN staging')]
    /\ UNCHANGED <<schema, partial, now, nextId, permSeq>>

\* ------------------------------------------------------------ specifications
Lifetime == 3

\* tests/models.py: TestA (AutoField id, no parents) and Profile(User) (multi-table
\* inheritance, keyed by the parent link user_ptr, which is no AutoField).
PromotionSchemas ==
    { Model(<<IdField, Column1>>, 0, NoLifetime),
      Model(<<UserPtrField, Column1>>, 1, NoLifetime) }

\* tests/models.py: TestB (state_lifetime given), and the same with a key of its own.
ExpirySchemas ==
    { Model(<<IdField, Column1>>, 0, Lifetime),
      Model(<<CodeField, Column1>>, 0, Lifetime) }

DeriveSchemas ==
    { Model(<<pk, x>>, ParentsOf(pk), l) :
        pk \in PkFields, x \in ExtraFields, l \in {NoLifetime, Lifetime} }

InitWith(S) ==
    /\ schema \in S
    /\ partial = Unprepared
    /\ now = 0
    /\ staging = EmptyRow
    /\ nextId = 0
    /\ permanent = EmptyRow
    /\ permSeq = 0
    /\ handles = EmptyRow
    /\ ret = NoRet

\* The values an instance is given for a field: keys and references range over Values,
\* other columns over ColValues; None for a field left out.
ValuesOf(f) == (IF f.kind = "Field" /\ ~f.primary_key /\ ~f.unique THEN ColValues ELSE Values)
ValuesOfName(model, n) == ValuesOf(CHOOSE f \in FieldSet(model) : f.name = n)
RowsOf(sm, model) ==
    { v \in [StagingNames(sm) -> Values \cup ColValues \cup {Null}] :
        \A n \in StagingNames(sm) : v[n] \in ValuesOfName(model, n) \cup {Null} }

Init == InitWith(PromotionSchemas)

Next ==
    \/ finalize
    \/ \E h \in Handles : \E v \in RowsOf(partial, schema) : New(h, v, FALSE, 0)
    \/ \E h \in Handles : \E n \in StagingNames(partial) :
          \E x \in ValuesOfName(schema, n) : Assign(h, n, x)
    \/ \E h \in Handles : Save(h)
    \/ \E h \in Handles : \E id \in 1..MaxId : Fetch(h, id)
    \/ \E h \in Handles : Delete(h)
    \/ \E h \in Handles : \E valid \in BOOLEAN : ShelveInsert(h, valid)
    \/ \E h \in Handles : \E raises \in BOOLEAN : ShelveCleanup(h, raises)

Spec == Init /\ [][Next]_vars

\* ------------------------------------------------------------------ claims
\* C1: a shelve that fails (ValidationError of the target's clean(), IntegrityError of the
\* forced insert, or an exception of post_shelve_cleanup inside the transaction) leaves
\* both tables as they were: no permanent row is added or changed, and every staging row
\* is still there under its partial_state_id with its values.
C1_FailedShelveChangesNothing ==
    [][ (ret' # ret /\ ret'.op = "shelve" /\ ret'.out # "ok")
            => (permanent' = permanent /\ staging' = staging) ]_vars

\* C1 witness: post_shelve_cleanup raised after the insert and the delete were done inside
\* the transaction, and the staging row of the instance is in the table.
C1_Witness ==
    /\ ret.op = "shelve"
    /\ ret.out = "CleanupError"
    /\ ret.arg \in DOMAIN staging

\* C2: every shelve call created exactly one permanent row and deleted exactly one staging
\* row, or created none and deleted none.
C2_ShelveOneForOne ==
    ret.op = "shelve" =>
        \/ ret.created = 1 /\ ret.deleted = 1
        \/ ret.created = 0 /\ ret.deleted = 0

\* C3: two promotions that carry the same primary key never both complete their insert;
\* the one that commits adds a row under a key that was free and removes its staging row;
\* the one whose insert finds the key taken fails with IntegrityError and leaves both
\* tables (its own staging row included) as they are; a permanent row is never written over.
C3_SamePkOneWinner ==
    [][ /\ \A h, g \in DOMAIN handles' :
              h # g => (DOMAIN handles'[h].ins) \cap (DOMAIN handles'[g].ins) = {}
        /\ \A k \in DOMAIN permanent :
              k \in DOMAIN permanent' /\ permanent'[k] = permanent[k]
        /\ (ret' # ret /\ ret'.op = "insert")
              => \A k \in DOMAIN handles'[ret'.h].ins : k \notin DOMAIN permanent
        /\ (ret' # ret /\ ret'.op = "shelve" /\ ret'.out = "ok")
              => /\ ret'.ids[1] \notin DOMAIN permanent
                 /\ permanent' = Merge(permanent, handles[ret'.h].ins)
                 /\ ret'.arg \notin DOMAIN staging'
        /\ (ret' # ret /\ ret'.op = "shelve" /\ ret'.out = "IntegrityError")
              => permanent' = permanent /\ staging' = staging /\ handles' = handles
      ]_vars

\* C3 witness: the target's key is no AutoField; one instance was promoted (its key is in
\* the permanent table, its partial_state_id is gone), and the shelve of another instance,
\* bound to another staging row with the same key, has just failed with IntegrityError,
\* its row still in the staging table.
C3_Witness ==
    /\ PkField(schema).kind # "AutoField"
    /\ ret.op = "shelve"
    /\ ret.out = "IntegrityError"
    /\ ret.h \in DOMAIN handles
    /\ LET me == handles[ret.h]
           key == PkField(schema).name
       IN  /\ me.pk \in DOMAIN staging
           /\ staging[me.pk][key] = me.vals[key]
           /\ me.vals[key] \in DOMAIN permanent
           /\ \A i \in DOMAIN schema.fields : me.vals[schema.fields[i].name] # Null
           /\ \E g \in (DOMAIN handles) \ {ret.h} :
                  handles[g].pk = Null /\ handles[g].vals[key] = me.vals[key]

\* C4: after a successful shelve exactly one permanent row is new; it holds, for every
\* local field that is no AutoField, the value the staging instance had when shelve was
\* called; the returned object carries the row's primary key (the assigned identity for
\* an AutoField); and by_partial_state_id of the instance's staging id finds nothing.
C4_ShelveSuccess ==
    (ret.op = "shelve" /\ ret.out = "ok") =>
        LET self == handles[ret.h]
            pk == ret.ids[1]
            key == PkField(schema)
        IN  /\ ret.created = 1
            /\ pk \in DOMAIN permanent
            /\ \A f \in FieldSet(schema) :
                  f.kind # "AutoField" => permanent[pk][f.name] = self.vals[f.name]
            /\ IF key.kind = "AutoField" THEN pk \in 1..permSeq ELSE pk = self.vals[key.name]
            /\ by_partial_state_id(partial, staging, now, ret.arg).err = "DoesNotExist"

\* C4 witness: a staging row of a target with an inheritance parent was promoted and removed.
C4_Witness ==
    /\ ret.op = "shelve"
    /\ ret.out = "ok"
    /\ ret.deleted = 1
    /\ schema.parents > 0

\* ------------------------------------------------- the store with expiry
InitExpiry == InitWith(ExpirySchemas)

\* The store's calls are made by one caller, through one variable it rebinds.
StoreHandles == {1}

NextExpiry ==
    \/ finalize
    \/ \E h \in StoreHandles : \E v \in RowsOf(partial, schema) :
          \E supplied \in BOOLEAN : \E e \in Times : New(h, v, supplied, e)
    \/ \E h \in StoreHandles : \E n \in StagingNames(partial) :
          \E x \in ValuesOfName(schema, n) : Assign(h, n, x)
    \/ \E h \in StoreHandles : Save(h)
    \/ \E h \in StoreHandles : \E id \in 1..MaxId : Fetch(h, id)
    \/ \E h \in StoreHandles : \E pk \in Values : FetchTrue(h, pk)
    \/ \E h \in StoreHandles : Delete(h)
    \/ \E h \in StoreHandles : \E valid \in BOOLEAN : ShelveInsert(h, valid)
    \/ \E h \in StoreHandles : \E raises \in BOOLEAN : ShelveCleanup(h, raises)
    \/ Query
    \/ purge_expired
    \/ Tick

SpecExpiry == InitExpiry /\ [][NextExpiry]_vars

\* The staging ids a call returned.
Returned(r) == {r.ids[i] : i \in DOMAIN r.ids}
Expiry(table, id) == table[id]["partial_state_expiry"]

\* C5: on a model derived with a lifetime, creating a staging instance without an expiry
\* value succeeds and sets partial_state_expiry to the creation time plus the lifetime
\* (so the record is active from then on until that time has passed).
C5_DefaultExpiry ==
    (ret.op = "new" /\ ret.arg = 0 /\ partial.state_expires) =>
        /\ ret.out = "ok"
        /\ ret.h \in DOMAIN handles
        /\ handles[ret.h].vals["partial_state_expiry"] = ret.at + schema.state_lifetime
        /\ handles[ret.h].vals["partial_state_expiry"] >= now

\* C6: purge_expired deletes exactly the staging rows whose expiry is strictly before the
\* call time, leaves every other staging row and the permanent table unchanged, so the
\* manager's queryset is the same before and after; no row is both active and purgeable.
C6_PurgeExact ==
    [][ (ret' # ret /\ ret'.op = "purge_expired" /\ ret'.out = "ok") =>
          /\ DOMAIN staging' = {id \in DOMAIN staging : ~(Expiry(staging, id) < now)}
          /\ \A id \in DOMAIN staging' : staging'[id] = staging[id]
          /\ Returned(ret') = {id \in DOMAIN staging : Expiry(staging, id) < now}
          /\ permanent' = permanent
          /\ get_queryset(partial, staging', now') = get_queryset(partial, staging, now)
          /\ \A id \in DOMAIN staging :
                (id \in get_queryset(partial, staging, now)) # (id \in DOMAIN staging \ DOMAIN staging')
      ]_vars

\* C6 witness: a purge deleted a row and kept one whose expiry is exactly the call time.
C6_Witness ==
    /\ ret.op = "purge_expired"
    /\ ret.deleted >= 1
    /\ \E id \in DOMAIN staging : Expiry(staging, id) = now

\* C7: for a target whose primary key is no AutoField, by_true_pk(pk) returns the active
\* staging row with the highest partial_state_id among those whose copy of the target key
\* equals pk, whatever expired rows or later updates there are, and raises DoesNotExist
\* when no active row matches.
C7_LatestActiveWins ==
    (ret.op = "by_true_pk" /\ PkField(schema).kind # "AutoField") =>
        LET key == PkField(schema).name
            match == {id \in DOMAIN staging :
                        staging[id][key] = ret.arg /\ Expiry(staging, id) >= now}
        IN  IF match = {}
            THEN ret.out = "DoesNotExist" /\ ret.ids = <<>>
            ELSE /\ ret.out = "ok"
                 /\ Len(ret.ids) = 1
                 /\ ret.ids[1] \in match
                 /\ \A id \in match : id <= ret.ids[1]
                 /\ handles[ret.h].pk = ret.ids[1]
                 /\ handles[ret.h].vals = staging[ret.ids[1]]

\* C7 witness: two active rows carry the key asked for, and the higher id came back.
C7_Witness ==
    /\ ret.op = "by_true_pk"
    /\ ret.out = "ok"
    /\ PkField(schema).kind # "AutoField"
    /\ Cardinality({id \in DOMAIN staging :
            staging[id][PkField(schema).name] = ret.arg /\ Expiry(staging, id) >= now}) >= 2

\* C8: the queryset and by_partial_state_id never return a row whose expiry is strictly
\* before the call time; by_partial_state_id(id) raises DoesNotExist exactly when no row
\* has that id or the row is expired; time does not go back, a row's expiry is not
\* rewritten, and so a row that is expired stays expired (unreturnable) while it exists.
C8_ExpiredNeverReturned ==
    [][ /\ now' >= now
        /\ \A id \in (DOMAIN staging) \cap (DOMAIN staging') :
              /\ Expiry(staging', id) = Expiry(staging, id)
              /\ Expiry(staging, id) < now => Expiry(staging', id) < now'
        /\ (ret' # ret /\ ret'.op = "query") =>
              /\ Returned(ret') = {id \in DOMAIN staging' : Expiry(staging', id) >= now'}
              /\ \A i, j \in DOMAIN ret'.ids : i < j => ret'.ids[i] > ret'.ids[j]
        /\ (ret' # ret /\ ret'.op = "by_partial_state_id") =>
              IF ret'.arg \in DOMAIN staging' /\ Expiry(staging', ret'.arg) >= now'
              THEN ret'.out = "ok" /\ ret'.ids = <<ret'.arg>>
              ELSE ret'.out = "DoesNotExist" /\ ret'.ids = <<>>
      ]_vars

\* C8 witness: by_partial_state_id has just raised DoesNotExist for a row that is still in
\* the table, expired.
C8_Witness ==
    /\ ret.op = "by_partial_state_id"
    /\ ret.out = "DoesNotExist"
    /\ ret.arg \in DOMAIN staging
    /\ Expiry(staging, ret.arg) < now

\* ------------------------------------------------------- derivation alone
InitDerive == InitWith(DeriveSchemas)

NextDerive ==
    \/ finalize
    \/ \E h \in StoreHandles : \E v \in RowsOf(partial, schema) :
          \E supplied \in BOOLEAN : \E e \in Times : New(h, v, supplied, e)
    \/ \E h \in StoreHandles : Save(h)

SpecDerive == InitDerive /\ [][NextDerive]_vars

\* C9: for a target that declares a many-to-many field the derivation fails (ValueError,
\* "ManyToManyFields are not supported") and no staging model is built or attached; for a
\* target without one it succeeds and the derived fields hold no AutoField and no
\* many-to-many field.
C9_DerivationOutcome ==
    partial.status # "pending" =>
        IF \E f \in FieldSet(schema) : f.kind = "ManyToManyField"
        THEN partial.status = "failed" /\ partial.err = "ValueError" /\ partial.fields = <<>>
        ELSE /\ partial.status = "attached"
             /\ \A i \in DOMAIN partial.fields :
                   partial.fields[i].kind \notin {"AutoField", "ManyToManyField"}

\* C10: no field of a derived staging model is unique, so saving a staging instance never
\* fails because another staging row holds the same value: a save whose instance gives a
\* value to every field copied with null=False is accepted.
C10_DuplicatesAccepted ==
    (ret.op = "save" /\ ret.out = "IntegrityError") =>
        \E h \in DOMAIN handles : \E i \in DOMAIN partial.fields :
            ~partial.fields[i].null /\ handles[h].vals[partial.fields[i].name] = Null

\* C11: for a target whose primary key is an AutoField, by_true_pk fails for every
\* argument (FieldError of filter(): the staging model has no field of that name, the
\* lookup is unsupported), returns no record and binds none, and leaves the staging
\* table, the permanent table, the clock and every instance as they were.
C11_AutoPkLookupFails ==
    [][ (ret' # ret /\ ret'.op = "by_true_pk" /\ PkField(schema).kind = "AutoField")
            => /\ ret'.out = "FieldError"
               /\ ret'.ids = <<>>
               /\ UNCHANGED <<schema, partial, now, staging, nextId,
                              permanent, permSeq, handles>> ]_vars

\* C11 witness: the lookup failed for an AutoField target although an active staging row
\* has the argument as its partial_state_id.
C11_Witness ==
    /\ ret.op = "by_true_pk"
    /\ ret.out = "FieldError"
    /\ PkField(schema).kind = "AutoField"
    /\ ret.arg \in get_queryset(partial, staging, now)

====
